---- MODULE Spec2Model ----
(***************************************************************************)
(* Model of scripts/create_map.py: the coffee-shop overlay of the map.     *)
(*                                                                         *)
(*   fetch_coffee_shops       rows of the sheet  -> shop records           *)
(*   format_address           raw address        -> formatted address      *)
(*   geocode_address          formatted address  -> coordinates | error    *)
(*   add_coffee_shop_markers  the loop over the shops and the summary      *)
(*                                                                         *)
(* Python strings are TLA+ strings; positions are 1-based, and a position  *)
(* of 0 stands for Python's "not found" (-1).  Floats are fixed-point      *)
(* integers scaled by 10^4 (see ParseFloat).                               *)
(***************************************************************************)
EXTENDS Integers, Sequences, FiniteSets, TLC

VARIABLES
    pc,                    \* where the run is
    rows,                  \* the parsed CSV, header first
    coffee_shops,          \* what fetch_coffee_shops returned
    shop_i,                \* i of the loop over coffee_shops
    address_attempts,      \* geocode_address: the variations
    attempt_i,             \* geocode_address: i of the loop over address_attempts
    markers,               \* the markers added to folium_map
    successful_markers,
    manual_overrides_used,
    failed_geocoding,
    summary,               \* the printed summary, <<>> until it is printed
    requests,              \* every request sent to the service, in order
    first_matches,         \* the call in progress: the first attempt (its i) that
                           \* got a non-empty list of matches, 0 when none has
    first_ok,              \* the call in progress: the first attempt that got matches whose
                           \* selected match has a latitude and a longitude float() takes
    caught,                \* the call in progress: the except clauses entered
    geocode_result,        \* what geocode_address has returned, until it is handled
    resolved_from,         \* the matches the returned coordinates were taken from, <<>> when
                           \* geocode_address has not returned coordinates
    skipped,               \* the shops skipped for having no address
    since_request,         \* seconds since the latest request was sent
    since_response,        \* seconds since the latest response (or the start)
    request_gap            \* seconds between the request in flight and the one before

(***************************************************************************)
(* Python str primitives                                                   *)
(***************************************************************************)
LowerLetters == "abcdefghijklmnopqrstuvwxyz"

UpperLetters == "ABCDEFGHIJKLMNOPQRSTUVWXYZ"

Digits == {"0", "1", "2", "3", "4", "5", "6", "7", "8", "9"}

\* the characters str.strip() removes and the regex class \s matches
Whitespace == {" ", "\t", "\n", "\r"}

Max(a, b) == IF a >= b THEN a ELSE b

Min(a, b) == IF a <= b THEN a ELSE b

\* s[a-1:b] with the bounds clamped as Python's slices are
Slice(s, a, b) == IF Max(a, 1) > Min(b, Len(s)) THEN "" ELSE SubSeq(s, Max(a, 1), Min(b, Len(s)))

\* the character at position i, "" beyond the ends of s
Char(s, i) == Slice(s, i, i)

Letters == {Char(LowerLetters, i) : i \in 1..26} \cup {Char(UpperLetters, i) : i \in 1..26}

\* s[i:] with a 1-based i
From(s, i) == Slice(s, i, Len(s))

RECURSIVE FindFrom(_, _, _)
FindFrom(s, p, i) ==
    IF i + Len(p) - 1 > Len(s) THEN 0
    ELSE IF Slice(s, i, i + Len(p) - 1) = p THEN i
    ELSE FindFrom(s, p, i + 1)

\* s.find(p), 1-based; 0 when p does not occur
Find(s, p) == FindFrom(s, p, 1)

\* p in s
Contains(s, p) == Find(s, p) # 0

\* s.replace(old, new): every non-overlapping occurrence, left to right
RECURSIVE Replace(_, _, _)
Replace(s, old, new) ==
    LET k == Find(s, old)
    IN  IF k = 0 THEN s
        ELSE Slice(s, 1, k - 1) \o new \o Replace(From(s, k + Len(old)), old, new)

RECURSIVE LStrip(_)
LStrip(s) == IF Len(s) > 0 /\ Char(s, 1) \in Whitespace THEN LStrip(From(s, 2)) ELSE s

RECURSIVE RStrip(_)
RStrip(s) ==
    IF Len(s) > 0 /\ Char(s, Len(s)) \in Whitespace THEN RStrip(Slice(s, 1, Len(s) - 1)) ELSE s

\* s.strip()
Strip(s) == RStrip(LStrip(s))

UpperChar(c) ==
    IF \E i \in 1..26 : Char(LowerLetters, i) = c
    THEN Char(UpperLetters, CHOOSE i \in 1..26 : Char(LowerLetters, i) = c)
    ELSE c

LowerChar(c) ==
    IF \E i \in 1..26 : Char(UpperLetters, i) = c
    THEN Char(LowerLetters, CHOOSE i \in 1..26 : Char(UpperLetters, i) = c)
    ELSE c

RECURSIVE Upper(_)
Upper(s) == IF s = "" THEN "" ELSE UpperChar(Char(s, 1)) \o Upper(From(s, 2))

RECURSIVE Lower(_)
Lower(s) == IF s = "" THEN "" ELSE LowerChar(Char(s, 1)) \o Lower(From(s, 2))

\* any(char.isdigit() for char in s)
AnyDigit(s) == \E i \in 1..Len(s) : Char(s, i) \in Digits

\* s[-n:]
LastChars(s, n) == Slice(s, Max(1, Len(s) - n + 1), Len(s))

\* s.split(sep)[0]
SplitHead(s, sep) ==
    LET k == Find(s, sep) IN IF k = 0 THEN s ELSE Slice(s, 1, k - 1)

\* s.split(sep)[1], for an s that holds sep: the text between the first and the
\* second occurrence
SplitSecond(s, sep) == SplitHead(From(s, Find(s, sep) + Len(sep)), sep)

\* x in list
InList(list, x) == \E k \in 1..Len(list) : list[k] = x

(***************************************************************************)
(* format_address                                                          *)
(***************************************************************************)
\* the (pattern, replacement) pairs, in the order the loop visits them
format_suite_patterns ==
    << <<"Suite ", ", Suite ">>, <<"Ste ", ", Ste ">>, <<"STE ", ", STE ">>,
       <<"Unit ", ", Unit ">>, <<"UNIT ", ", UNIT ">>, <<"#", ", #">> >>

\* one iteration of the loop over suite_patterns
InsertSuiteComma(formatted, pattern, replacement) ==
    IF /\ Contains(formatted, pattern)
       /\ ~Contains(formatted, ", " \o pattern)
       /\ ~Contains(formatted, "," \o pattern)
    THEN LET pos  == Find(formatted, pattern)
             rest == From(formatted, pos + Len(pattern))
         IN  IF pos > 1
             THEN IF Char(formatted, pos - 1) \notin {",", " "}
                  THEN Slice(formatted, 1, pos - 1) \o replacement \o rest
                  ELSE IF Char(formatted, pos - 1) = " "
                       THEN Slice(formatted, 1, pos - 2) \o replacement \o rest
                       ELSE formatted
             ELSE formatted
    ELSE formatted

RECURSIVE InsertSuiteCommas(_, _)
InsertSuiteCommas(formatted, k) ==
    IF k > Len(format_suite_patterns) THEN formatted
    ELSE InsertSuiteCommas(
             InsertSuiteComma(formatted, format_suite_patterns[k][1],
                              format_suite_patterns[k][2]),
             k + 1)

\* "Add Kentucky if not present"
AddState(formatted) ==
    IF ~Contains(Upper(formatted), "KY") /\ ~Contains(Upper(formatted), "KENTUCKY")
    THEN formatted \o ", KY"
    ELSE formatted

\* "If no ZIP code and we have county info, try to add it"
AddCounty(formatted, county) ==
    IF ~AnyDigit(LastChars(formatted, 10)) /\ county # ""
    THEN IF Contains(formatted, ", KY")
         THEN Replace(formatted, ", KY", ", " \o county \o " County, KY")
         ELSE formatted
    ELSE formatted

format_address(address, county) ==
    IF address = "" THEN ""
    ELSE AddCounty(AddState(InsertSuiteCommas(Strip(address), 1)), county)

(***************************************************************************)
(* geocode_address: the list of address variations                         *)
(***************************************************************************)
geocode_suite_patterns ==
    <<", Suite ", ", Ste ", ", STE ", ", Unit ", ", UNIT ", ", #",
      " Suite ", " Ste ", " STE ", " Unit ", " UNIT ", " #">>

RECURSIVE SkipSpace(_, _)
\* the first position from i on that holds no whitespace
SkipSpace(s, i) ==
    IF i <= Len(s) /\ Char(s, i) \in Whitespace THEN SkipSpace(s, i + 1) ELSE i

RECURSIVE RunLength(_, _, _)
\* the length of the longest run of characters of class cls that starts at i
RunLength(s, i, cls) ==
    IF i <= Len(s) /\ Char(s, i) \in cls THEN 1 + RunLength(s, i + 1, cls) ELSE 0

\* r'[A-Za-z\s]+,?\s*KY\s*\d{5}' matched at i with the first part n long:
\* the position of the match's last character, 0 when there is no match
CityMatchEnd(s, i, n) ==
    LET j  == i + n
        j2 == IF Char(s, j) = "," THEN j + 1 ELSE j
        j3 == SkipSpace(s, j2)
        j4 == SkipSpace(s, j3 + 2)
    IN  IF /\ Slice(s, j3, j3 + 1) = "KY"
           /\ j4 + 4 <= Len(s)
           /\ \A d \in 0..4 : Char(s, j4 + d) \in Digits
        THEN j4 + 4
        ELSE 0

\* the lengths of the first part for which the pattern matches at i
CityMatchLengths(s, i) ==
    {n \in 1..RunLength(s, i, Letters \cup Whitespace) : CityMatchEnd(s, i, n) # 0}

\* re.search(r'[A-Za-z\s]+,?\s*KY\s*\d{5}', s): <<first, last>> positions of the
\* leftmost match (greedy: the longest first part that matches), <<0, 0>> for None
CitySearch(s) ==
    LET starts == {i \in 1..Len(s) : CityMatchLengths(s, i) # {}}
    IN  IF starts = {} THEN <<0, 0>>
        ELSE LET i == CHOOSE a \in starts : \A b \in starts : a <= b
                 n == CHOOSE a \in CityMatchLengths(s, i) :
                          \A b \in CityMatchLengths(s, i) : a >= b
             IN  <<i, CityMatchEnd(s, i, n)>>

\* the candidate of one suite pattern that occurs in the address
SuiteBaseAddress(address, pattern) ==
    LET base_address == SplitHead(address, pattern)
        after_suite  == SplitSecond(address, pattern)
        city_match   == CitySearch(after_suite)
    IN  IF city_match # <<0, 0>>
        THEN base_address \o ", " \o Strip(Slice(after_suite, city_match[1], city_match[2]))
        ELSE IF Contains(after_suite, "KY")
             THEN base_address \o ", " \o Strip(after_suite)
             ELSE base_address

\* if x not in address_attempts: address_attempts.append(x)
AppendIfNew(attempts, x) ==
    IF InList(attempts, x) THEN attempts ELSE Append(attempts, x)

RECURSIVE SuiteFallbacks(_, _, _)
\* the loop over suite_patterns
SuiteFallbacks(address, attempts, k) ==
    IF k > Len(geocode_suite_patterns) THEN attempts
    ELSE SuiteFallbacks(
             address,
             IF Contains(address, geocode_suite_patterns[k])
             THEN AppendIfNew(attempts,
                              SuiteBaseAddress(address, geocode_suite_patterns[k]))
             ELSE attempts,
             k + 1)

SuiteWords == <<"Suite", "Ste", "STE", "Unit", "UNIT", "#">>

SuiteValueChars == Letters \cup Digits \cup {"-"}

\* r',?\s*(Suite|Ste|STE|Unit|UNIT|#)\s*[A-Za-z0-9\-]+' matched at i: the position
\* of the match's last character, 0 when there is no match
SuiteMatchEnd(s, i) ==
    LET j    == SkipSpace(s, IF Char(s, i) = "," THEN i + 1 ELSE i)
        hits == {w \in 1..Len(SuiteWords) :
                    /\ Slice(s, j, j + Len(SuiteWords[w]) - 1) = SuiteWords[w]
                    /\ RunLength(s, SkipSpace(s, j + Len(SuiteWords[w])),
                                 SuiteValueChars) > 0}
    IN  IF hits = {} THEN 0
        ELSE LET w == CHOOSE a \in hits : \A b \in hits : a <= b
                 v == SkipSpace(s, j + Len(SuiteWords[w]))
             IN  v + RunLength(s, v, SuiteValueChars) - 1

RECURSIVE RemoveSuites(_, _)
\* re.sub(r',?\s*(Suite|Ste|STE|Unit|UNIT|#)\s*[A-Za-z0-9\-]+', '', s), from i on
RemoveSuites(s, i) ==
    IF i > Len(s) THEN ""
    ELSE IF SuiteMatchEnd(s, i) # 0 THEN RemoveSuites(s, SuiteMatchEnd(s, i) + 1)
    ELSE Char(s, i) \o RemoveSuites(s, i + 1)

\* NoSuiteFallback without its "not in address_attempts" test
NoSuiteFallback_NoCheck(address, attempts) ==
    LET no_suite == RemoveSuites(address, 1)
    IN  IF no_suite # address THEN Append(attempts, no_suite) ELSE attempts

\* "Also try without any suite info at all"
NoSuiteFallback(address, attempts) ==
    LET no_suite == RemoveSuites(address, 1)
    IN  IF no_suite # address /\ ~InList(attempts, no_suite)
        THEN Append(attempts, no_suite)
        ELSE attempts

\* street_abbrev_variations, in the dict's insertion order
street_abbrev_variations ==
    << <<" Dr ", " Drive ">>, <<" Dr,", " Drive,">>,
       <<" St ", " Street ">>, <<" St,", " Street,">>,
       <<" Ave ", " Avenue ">>, <<" Ave,", " Avenue,">>,
       <<" Rd ", " Road ">>, <<" Rd,", " Road,">>,
       <<" Blvd ", " Boulevard ">>, <<" Blvd,", " Boulevard,">>,
       <<" Cir ", " Circle ">>, <<" Cir,", " Circle,">> >>

RECURSIVE AbbrevFallbacks(_, _, _)
\* the loop over street_abbrev_variations.items()
AbbrevFallbacks(address, attempts, k) ==
    IF k > Len(street_abbrev_variations) THEN attempts
    ELSE LET abbrev    == street_abbrev_variations[k][1]
             full_word == street_abbrev_variations[k][2]
         IN  AbbrevFallbacks(
                 address,
                 IF Contains(address, abbrev)
                 THEN AppendIfNew(attempts, Replace(address, abbrev, full_word))
                 ELSE IF Contains(address, full_word)
                      THEN AppendIfNew(attempts, Replace(address, full_word, abbrev))
                      ELSE attempts,
                 k + 1)

\* address_attempts as geocode_address has built it when its request loop starts
AddressAttempts(address) ==
    AbbrevFallbacks(address,
                    NoSuiteFallback(address, SuiteFallbacks(address, <<address>>, 1)),
                    1)

(***************************************************************************)
(* geocode_address: the response of the service                            *)
(***************************************************************************)
\* a Python float: a finite value in units of 10^-4, or nan, or +-inf
Finite(e4) == [kind |-> "finite", e4 |-> e4]

NaN == [kind |-> "nan", e4 |-> 0]

Inf(sign) == [kind |-> "inf", e4 |-> sign]

DigitValue(c) == CHOOSE d \in 0..9 : ToString(d) = c

RECURSIVE DigitsValue(_)
\* int(s) of a string of digits
DigitsValue(s) ==
    IF s = "" THEN 0
    ELSE 10 * DigitsValue(Slice(s, 1, Len(s) - 1)) + DigitValue(Char(s, Len(s)))

AllDigits(s) == \A k \in 1..Len(s) : Char(s, k) \in Digits

\* float(s) for a decimal literal, 'nan', 'inf' or 'infinity' with an optional
\* sign: [ok |-> FALSE] stands for ValueError.  The fraction is cut to 4 digits.
ParseFloat(s) ==
    LET t     == Strip(s)
        neg   == Char(t, 1) = "-"
        body  == IF Char(t, 1) \in {"-", "+"} THEN From(t, 2) ELSE t
        dot   == Find(body, ".")
        whole == IF dot = 0 THEN body ELSE Slice(body, 1, dot - 1)
        frac  == IF dot = 0 THEN "" ELSE From(body, dot + 1)
        frac4 == Slice(frac \o "0000", 1, 4)
        mag   == DigitsValue(whole) * 10000 + DigitsValue(frac4)
    IN  IF Lower(body) = "nan" THEN [ok |-> TRUE, value |-> NaN]
        ELSE IF Lower(body) \in {"inf", "infinity"}
             THEN [ok |-> TRUE, value |-> Inf(IF neg THEN -1 ELSE 1)]
        ELSE IF AllDigits(whole) /\ AllDigits(frac) /\ Len(whole) + Len(frac) > 0
             THEN [ok |-> TRUE, value |-> Finite(IF neg THEN -mag ELSE mag)]
        ELSE [ok |-> FALSE, value |-> NaN]

\* r.get('display_name', '')
DisplayName(r) == IF "display_name" \in DOMAIN r THEN r.display_name ELSE ""

\* ky_results = [r for r in results if 'kentucky' in r.get('display_name', '').lower()]
RECURSIVE KyResults(_)
KyResults(results) ==
    IF results = <<>> THEN <<>>
    ELSE (IF Contains(Lower(DisplayName(Head(results))), "kentucky")
          THEN <<Head(results)>> ELSE <<>>) \o KyResults(Tail(results))

\* BestResult that takes the first match whatever its display name
BestResult_FirstMatch(results) == results[1]

\* best_result = ky_results[0] if ky_results else results[0]
BestResult(results) ==
    IF KyResults(results) # <<>> THEN KyResults(results)[1] ELSE results[1]

\* What one pass through the try block makes of the response: "ok" with the
\* coordinates to return, "no_results" for the else branch, or "raised" with the
\* class of the exception
Attempt(response) ==
    LET raise(exception) == [kind |-> "raised", exception |-> exception, coordinates |-> <<>>]
    IN  CASE response.kind = "RequestException" -> raise("RequestException")
          [] response.kind = "invalid_json"     -> raise("ValueError")
          [] response.kind = "json_object"      -> raise("AttributeError")
          [] OTHER ->
             IF response.results = <<>>
             THEN [kind |-> "no_results", exception |-> "", coordinates |-> <<>>]
             ELSE LET best_result == BestResult(response.results)
                  IN  IF "lat" \notin DOMAIN best_result THEN raise("KeyError")
                      ELSE IF ~ParseFloat(best_result.lat).ok THEN raise("ValueError")
                      ELSE IF "lon" \notin DOMAIN best_result THEN raise("KeyError")
                      ELSE IF ~ParseFloat(best_result.lon).ok THEN raise("ValueError")
                      ELSE [kind |-> "ok", exception |-> "",
                            coordinates |-> <<ParseFloat(best_result.lat).value,
                                              ParseFloat(best_result.lon).value>>]

\* the classes derived from Exception that the model raises; KeyboardInterrupt
\* derives from BaseException only
ExceptionClasses == {"RequestException", "ValueError", "KeyError", "AttributeError"}

\* CatchingClause without the final "except Exception" clause
CatchingClause_NoCatchAll(exception) ==
    CASE exception = "RequestException"         -> "except requests.RequestException"
      [] exception \in {"ValueError", "KeyError"} -> "except (ValueError, KeyError)"
      [] OTHER                                   -> "uncaught"

\* the except clause of the try block that catches an exception of the class
CatchingClause(exception) ==
    CASE exception = "RequestException"         -> "except requests.RequestException"
      [] exception \in {"ValueError", "KeyError"} -> "except (ValueError, KeyError)"
      [] exception \in ExceptionClasses          -> "except Exception"
      [] OTHER                                   -> "uncaught"

\* AfterAttempt that keeps trying the remaining variations after a success
AfterAttempt_NoEarlyReturn(kind, i, n) ==
    IF i < n THEN "next attempt"
    ELSE IF kind = "ok" THEN "return coordinates"
    ELSE "return error"

\* AfterAttempt whose loop stops one variation short
AfterAttempt_SkipsLast(kind, i, n) ==
    IF kind = "ok" THEN "return coordinates"
    ELSE IF i + 1 < n THEN "next attempt"
    ELSE "return error"

\* AfterAttempt that gives up at the first exception
AfterAttempt_AbortsOnError(kind, i, n) ==
    IF kind = "ok" THEN "return coordinates"
    ELSE IF kind = "raised" THEN "return error"
    ELSE IF i < n THEN "next attempt"
    ELSE "return error"

\* where the loop over address_attempts goes after attempt i of n
AfterAttempt(kind, i, n) ==
    IF kind = "ok" THEN "return coordinates"
    ELSE IF i < n THEN "next attempt"
    ELSE "return error"

\* the error geocode_address returns when every attempt has failed
AllFailedError(attempts, address, original_address) ==
    "All " \o ToString(Len(attempts)) \o " geocoding attempts failed for: "
        \o (IF original_address # "" THEN original_address ELSE address)

(***************************************************************************)
(* fetch_coffee_shops                                                      *)
(***************************************************************************)
MobileKeywords == {"mobile", "truck", "cart", "trailer"}

\* row[k] of a Python list, 0-based
Col(row, k) == row[k + 1]

\* the shops the loop body appends for row i (i counts from 1 after the header)
RowShops(row, i) ==
    IF Len(row) < 3 THEN <<>>
    ELSE LET name      == IF Col(row, 0) # "" THEN Strip(Col(row, 0))
                          ELSE "Coffee Shop " \o ToString(i)
             address1  == IF Col(row, 1) # "" THEN Strip(Col(row, 1)) ELSE ""
             address2  == IF Col(row, 2) # "" THEN Strip(Col(row, 2)) ELSE ""
             county    == IF Len(row) > 5 /\ Col(row, 5) # "" THEN Strip(Col(row, 5)) ELSE ""
             is_mobile == \E keyword \in MobileKeywords : Contains(Lower(name), keyword)
             first     == IF address1 # ""
                          THEN <<[name |-> name,
                                  address |-> format_address(address1, county),
                                  original_address |-> address1,
                                  county |-> county,
                                  location_num |-> 1,
                                  row_number |-> i + 1]>>
                          ELSE IF is_mobile THEN <<>>
                          ELSE <<[name |-> name,
                                  address |-> "",
                                  original_address |-> "",
                                  county |-> county,
                                  location_num |-> 1,
                                  row_number |-> i + 1]>>
             second    == IF address2 # ""
                          THEN <<[name |-> name \o " (Location 2)",
                                  address |-> format_address(address2, county),
                                  original_address |-> address2,
                                  county |-> county,
                                  location_num |-> 2,
                                  row_number |-> i + 1]>>
                          ELSE <<>>
         IN  first \o second

RECURSIVE ShopsOfRows(_, _)
\* coffee_shops after the loop has visited rows[1:][:n]
ShopsOfRows(sheet, n) ==
    IF n = 0 THEN <<>>
    ELSE ShopsOfRows(sheet, n - 1) \o RowShops(sheet[n + 1], n)

\* the list fetch_coffee_shops returns for the parsed CSV
FetchedShops(sheet) == IF sheet = <<>> THEN <<>> ELSE ShopsOfRows(sheet, Len(sheet) - 1)

(***************************************************************************)
(* add_coffee_shop_markers                                                 *)
(***************************************************************************)
manual_coordinates ==
    [a \in {"121 Bethel Harvest Dr Nicholasville, KY 40356"} |->
        <<Finite(378814), Finite(-845730)>>]

\* HasManualOverride that looks the address up in lower case
HasManualOverride_Lowercased(formatted_address) ==
    Lower(formatted_address) \in DOMAIN manual_coordinates

\* formatted_address in manual_coordinates
HasManualOverride(formatted_address) == formatted_address \in DOMAIN manual_coordinates

\* error_key of one failure
ErrorKey(error) == IF Contains(error, ":") THEN SplitHead(error, ":") ELSE error

\* RecordFailure that puts the newest failure first
RecordFailure_Prepend(failures, shop, error) ==
    <<[name |-> shop.name,
       original_address |-> shop.original_address,
       formatted_address |-> shop.address,
       error |-> error,
       row |-> shop.row_number]>> \o failures

\* failed_geocoding.append({...})
RecordFailure(failures, shop, error) ==
    Append(failures,
           [name |-> shop.name,
            original_address |-> shop.original_address,
            formatted_address |-> shop.address,
            error |-> error,
            row |-> shop.row_number])

\* folium.Marker(location=[lat, lon], tooltip=shop_name, ...).add_to(folium_map)
AddMarker(folium_map, i, shop, coordinates) ==
    Append(folium_map, [shop |-> i, tooltip |-> shop.name, location |-> coordinates])

(***************************************************************************)
(* The run: create_map's coffee-shop overlay                               *)
(***************************************************************************)
\* time.sleep(1)
SleepSeconds == 1

\* bounds of the model
MaxRows == 2

MaxOversleep == 1

MaxLatency == 1

HeaderRow == <<"Name", "Address 1", "Address 2", "Phone", "Website", "County">>

DataRows ==
    { <<"Joe's Coffee", "121 Bethel Harvest Dr Nicholasville, KY 40356", "", "", "", "Jessamine">>,
      <<"Main Street Cafe", "500 W Main St, Lexington, KY 40507",
        " 121 Bethel Harvest Dr Nicholasville, KY 40356 ", "", "", "Fayette">>,
      <<"Broadway Beans", "8 Broadway #2, Berea, KY 40403", "", "", "", "", "Madison">>,
      <<"Ghost Cafe", "", "", "", "", "Clark">>,
      <<"Bean Cart", "", "">>,
      <<"Short Row", "3 Elm St">> }

KyMatch == [display_name |-> "Lexington, Kentucky", lat |-> "38.0464", lon |-> "-84.4970"]

OhioMatch == [display_name |-> "Lexington, Ohio", lat |-> "40.6784", lon |-> "-82.5824"]

ParisMatch == [display_name |-> "Paris, Bourbon County, KENTUCKY, USA", lat |-> "38.2098", lon |-> "-84.2530"]

Responses ==
    { [kind |-> "RequestException", results |-> <<>>],
      [kind |-> "invalid_json", results |-> <<>>],
      [kind |-> "json_object", results |-> <<>>],
      [kind |-> "json", results |-> <<>>],
      [kind |-> "json", results |-> <<KyMatch>>],
      [kind |-> "json", results |-> <<OhioMatch>>],
      [kind |-> "json", results |-> <<OhioMatch, KyMatch>>],
      [kind |-> "json", results |-> <<OhioMatch, ParisMatch, KyMatch>>],
      [kind |-> "json", results |-> <<[display_name |-> "Paris, KENTUCKY", lon |-> "-84.2530"]>>],
      [kind |-> "json", results |-> <<[display_name |-> "Paris, Kentucky", lat |-> "n/a", lon |-> "-84.2530"]>>],
      [kind |-> "json", results |-> <<[display_name |-> "Paris, Kentucky", lat |-> "nan", lon |-> "-84.2530"]>>],
      [kind |-> "json", results |-> <<[display_name |-> "Paris, Kentucky", lat |-> "38.2098", lon |-> "-inf"]>>] }

\* Attempt, tabulated over the responses of the model
AttemptTable == {<<response, Attempt(response)>> : response \in Responses}

AttemptOf(response) == (CHOOSE entry \in AttemptTable : entry[1] = response)[2]

\* the shops of the model's rows
RowShopPool ==
    UNION {{RowShops(row, 1)[k] : k \in 1..Len(RowShops(row, 1))} : row \in DataRows}

\* the formatted addresses of the model's rows
RowAddresses == {shop.address : shop \in RowShopPool}

\* AddressAttempts, tabulated over the addresses of the model
AttemptsTable == {<<address, AddressAttempts(address)>> : address \in RowAddresses \ {""}}

AttemptsOf(address) == (CHOOSE entry \in AttemptsTable : entry[1] = address)[2]

\* ErrorKey, tabulated over the errors geocode_address can return in the model
ErrorKeyTable ==
    {<<AllFailedError(AttemptsOf(shop.address), shop.address, shop.original_address),
       ErrorKey(AllFailedError(AttemptsOf(shop.address), shop.address, shop.original_address))>> :
        shop \in {pooled \in RowShopPool : pooled.address # ""}}

ErrorKeyOf(error) == (CHOOSE entry \in ErrorKeyTable : entry[1] = error)[2]

\* AddToErrorTypes that starts the list of a known key again
AddToErrorTypes_Overwrites(error_types, failure) ==
    LET error_key == ErrorKeyOf(failure.error)
    IN  IF \E k \in 1..Len(error_types) : error_types[k].key = error_key
        THEN [k \in 1..Len(error_types) |->
                 IF error_types[k].key = error_key
                 THEN [error_types[k] EXCEPT !.failures = <<failure>>]
                 ELSE error_types[k]]
        ELSE Append(error_types, [key |-> error_key, failures |-> <<failure>>])

\* error_types after one more failure: a dict in insertion order, as a sequence
\* of [key, failures]
AddToErrorTypes(error_types, failure) ==
    LET error_key == ErrorKeyOf(failure.error)
    IN  IF \E k \in 1..Len(error_types) : error_types[k].key = error_key
        THEN [k \in 1..Len(error_types) |->
                 IF error_types[k].key = error_key
                 THEN [error_types[k] EXCEPT !.failures = Append(@, failure)]
                 ELSE error_types[k]]
        ELSE Append(error_types, [key |-> error_key, failures |-> <<failure>>])

RECURSIVE GroupFailures(_, _)
\* error_types after the loop has visited failed_geocoding[:n]
GroupFailures(failures, n) ==
    IF n = 0 THEN <<>>
    ELSE AddToErrorTypes(GroupFailures(failures, n - 1), failures[n])

SeqsUpTo(S, n) == UNION {[1..k -> S] : k \in 0..n}

\* the parsed CSVs of the model: an empty sheet, or the header and up to MaxRows rows
SheetContents == {<<>>} \cup {<<HeaderRow>> \o data : data \in SeqsUpTo(DataRows, MaxRows)}

\* FetchedShops, tabulated over the sheets of the model
FetchedShopsTable == {<<sheet, FetchedShops(sheet)>> : sheet \in SheetContents}

FetchedShopsOf(sheet) == (CHOOSE entry \in FetchedShopsTable : entry[1] = sheet)[2]

rvars == <<pc, rows, coffee_shops, shop_i, address_attempts, attempt_i, markers,
           successful_markers, manual_overrides_used, failed_geocoding, summary,
           requests, first_matches, first_ok, caught, geocode_result, resolved_from, skipped, since_request,
           since_response, request_gap>>

VARIABLES fpc, f_address, f_county, f_formatted, f_again, f_attempts

fvars == <<fpc, f_address, f_county, f_formatted, f_again, f_attempts>>

vars == <<rvars, fvars>>

NoResult == [coordinates |-> <<>>, error |-> ""]

RunIdle ==
    /\ pc = "idle"
    /\ rows = <<>>
    /\ coffee_shops = <<>>
    /\ shop_i = 0
    /\ address_attempts = <<>>
    /\ attempt_i = 0
    /\ markers = <<>>
    /\ successful_markers = 0
    /\ manual_overrides_used = 0
    /\ failed_geocoding = <<>>
    /\ summary = <<>>
    /\ requests = <<>>
    /\ first_matches = 0
    /\ first_ok = 0
    /\ caught = {}
    /\ geocode_result = NoResult
    /\ resolved_from = <<>>
    /\ skipped = 0
    /\ since_request = 0
    /\ since_response = 0
    /\ request_gap = 0

FormatIdle ==
    /\ fpc = "idle"
    /\ f_address = ""
    /\ f_county = ""
    /\ f_formatted = ""
    /\ f_again = ""
    /\ f_attempts = <<>>

Init ==
    /\ pc = "fetch"
    /\ rows \in SheetContents
    /\ coffee_shops = <<>>
    /\ shop_i = 0
    /\ address_attempts = <<>>
    /\ attempt_i = 0
    /\ markers = <<>>
    /\ successful_markers = 0
    /\ manual_overrides_used = 0
    /\ failed_geocoding = <<>>
    /\ summary = <<>>
    /\ requests = <<>>
    /\ first_matches = 0
    /\ first_ok = 0
    /\ caught = {}
    /\ geocode_result = NoResult
    /\ resolved_from = <<>>
    /\ skipped = 0
    /\ since_request = 0
    /\ since_response = 0
    /\ request_gap = 0
    /\ FormatIdle

\* fetch_coffee_shops returns the shops; create_map calls add_coffee_shop_markers
\* when there are any
Fetch ==
    /\ pc = "fetch"
    /\ coffee_shops' = FetchedShopsOf(rows)
    /\ IF coffee_shops' # <<>>
       THEN pc' = "loop" /\ shop_i' = 1
       ELSE pc' = "done" /\ shop_i' = 0
    /\ UNCHANGED <<rows, address_attempts, attempt_i, markers, successful_markers,
                   manual_overrides_used, failed_geocoding, summary, requests, first_matches, first_ok, caught,
                   geocode_result, resolved_from, skipped, since_request, since_response, request_gap>>
    /\ UNCHANGED fvars

\* requests.get of the sheet raises: fetch_coffee_shops returns []
FetchFails ==
    /\ pc = "fetch"
    /\ pc' = "done"
    /\ UNCHANGED <<rows, coffee_shops, shop_i, address_attempts, attempt_i, markers,
                   successful_markers, manual_overrides_used, failed_geocoding, summary,
                   requests, first_matches, first_ok, caught, geocode_result, resolved_from, skipped, since_request,
                   since_response, request_gap>>
    /\ UNCHANGED fvars

AtShop == pc = "loop" /\ shop_i <= Len(coffee_shops)

\* SkipShop of a loop without the test of line 501: geocode_address would return
\* (None, "No address provided") and the shop would be reported as a failure
SkipShop_Reported ==
    /\ AtShop
    /\ coffee_shops[shop_i].address = ""
    /\ skipped' = skipped + 1
    /\ shop_i' = shop_i + 1
    /\ failed_geocoding' = Append(failed_geocoding,
                                   [name |-> coffee_shops[shop_i].name,
                                    original_address |-> "",
                                    formatted_address |-> "",
                                    error |-> "No address provided",
                                    row |-> coffee_shops[shop_i].row_number])
    /\ UNCHANGED <<pc, rows, coffee_shops, address_attempts, attempt_i, markers,
                   successful_markers, manual_overrides_used, summary, requests,
                   first_matches, first_ok, caught, geocode_result, resolved_from,
                   since_request, since_response, request_gap>>
    /\ UNCHANGED fvars

\* "Skip if no address (mobile trucks)"
SkipShop ==
    /\ AtShop
    /\ coffee_shops[shop_i].address = ""
    /\ skipped' = skipped + 1
    /\ shop_i' = shop_i + 1
    /\ UNCHANGED <<pc, rows, coffee_shops, address_attempts, attempt_i, markers,
                   successful_markers, manual_overrides_used, failed_geocoding, summary,
                   requests, first_matches, first_ok, caught, geocode_result, resolved_from, since_request, since_response,
                   request_gap>>
    /\ UNCHANGED fvars

\* OverrideShop that counts the override but not the success
OverrideShop_NotCounted ==
    /\ AtShop
    /\ coffee_shops[shop_i].address # ""
    /\ HasManualOverride(coffee_shops[shop_i].address)
    /\ manual_overrides_used' = manual_overrides_used + 1
    /\ markers' = AddMarker(markers, shop_i, coffee_shops[shop_i],
                            manual_coordinates[coffee_shops[shop_i].address])
    /\ shop_i' = shop_i + 1
    /\ UNCHANGED <<pc, rows, coffee_shops, address_attempts, attempt_i, failed_geocoding,
                   successful_markers, summary, requests, first_matches, first_ok, caught,
                   geocode_result, resolved_from, skipped, since_request, since_response,
                   request_gap>>
    /\ UNCHANGED fvars

\* "Check for manual override first": a hit adds the marker at once
OverrideShop ==
    /\ AtShop
    /\ coffee_shops[shop_i].address # ""
    /\ HasManualOverride(coffee_shops[shop_i].address)
    /\ manual_overrides_used' = manual_overrides_used + 1
    /\ markers' = AddMarker(markers, shop_i, coffee_shops[shop_i],
                            manual_coordinates[coffee_shops[shop_i].address])
    /\ successful_markers' = successful_markers + 1
    /\ shop_i' = shop_i + 1
    /\ UNCHANGED <<pc, rows, coffee_shops, address_attempts, attempt_i, failed_geocoding,
                   summary, requests, first_matches, first_ok, caught, geocode_result, resolved_from, skipped, since_request,
                   since_response, request_gap>>
    /\ UNCHANGED fvars

\* geocode_address is entered: it builds address_attempts and starts its loop
StartGeocode ==
    /\ AtShop
    /\ coffee_shops[shop_i].address # ""
    /\ ~HasManualOverride(coffee_shops[shop_i].address)
    /\ address_attempts' = AttemptsOf(coffee_shops[shop_i].address)
    /\ attempt_i' = 1
    /\ pc' = "sleep"
    /\ UNCHANGED <<rows, coffee_shops, shop_i, first_matches, first_ok, caught, geocode_result, resolved_from, markers, successful_markers,
                   manual_overrides_used, failed_geocoding, summary, requests, skipped,
                   since_request, since_response, request_gap>>
    /\ UNCHANGED fvars

\* SleepDurations of a sleep that may return at once
SleepDurations_Short == 0..MaxOversleep

\* how long time.sleep(1) may take
SleepDurations == SleepSeconds..(SleepSeconds + MaxOversleep)

\* time.sleep(1) returns after at least a second, and requests.get sends the request
Sleep ==
    /\ pc = "sleep"
    /\ \E slept \in SleepDurations :
          /\ request_gap' = since_request + slept
          /\ since_response' = since_response + slept
    /\ since_request' = 0
    /\ requests' = Append(requests, [shop |-> shop_i, attempt |-> attempt_i,
                                     q |-> address_attempts[attempt_i]])
    /\ pc' = "request"
    /\ UNCHANGED <<rows, coffee_shops, shop_i, address_attempts, attempt_i, markers,
                   successful_markers, manual_overrides_used, failed_geocoding, summary,
                   first_matches, first_ok, caught, geocode_result, resolved_from, skipped>>
    /\ UNCHANGED fvars

\* requests.get returns or raises, and the rest of the try block runs: a success
\* returns the coordinates; a failure moves on to the next variation, and after
\* the last one geocode_address returns the error.  An exception that no except
\* clause catches leaves geocode_address and its callers.
Respond ==
    /\ pc = "request"
    /\ \E response \in Responses, latency \in 0..MaxLatency :
          LET met    == AttemptOf(response)
              clause == CatchingClause(met.exception)
              after  == AfterAttempt(met.kind, attempt_i, Len(address_attempts))
          IN  /\ since_request' = since_request + latency
              /\ since_response' = 0
              /\ request_gap' = 0
              /\ first_matches' = IF first_matches = 0 /\ response.results # <<>>
                                   THEN attempt_i ELSE first_matches
              /\ first_ok' = IF first_ok = 0 /\ met.kind = "ok" THEN attempt_i ELSE first_ok
              /\ caught' = IF met.kind = "raised" THEN caught \cup {clause} ELSE caught
              /\ IF met.kind = "raised" /\ clause = "uncaught"
                 THEN /\ pc' = "raised"
                      /\ UNCHANGED <<attempt_i, geocode_result, resolved_from>>
                 ELSE IF after = "return coordinates"
                 THEN /\ geocode_result' = [coordinates |-> met.coordinates, error |-> ""]
                      /\ resolved_from' = response.results
                      /\ pc' = "returned"
                      /\ UNCHANGED attempt_i
                 ELSE IF after = "next attempt"
                 THEN /\ attempt_i' = attempt_i + 1
                      /\ pc' = "sleep"
                      /\ UNCHANGED <<geocode_result, resolved_from>>
                 ELSE /\ geocode_result' =
                            [coordinates |-> <<>>,
                             error |-> AllFailedError(address_attempts,
                                                      coffee_shops[shop_i].address,
                                                      coffee_shops[shop_i].original_address)]
                      /\ pc' = "returned"
                      /\ UNCHANGED <<attempt_i, resolved_from>>
    /\ UNCHANGED <<rows, coffee_shops, shop_i, address_attempts, markers,
                   successful_markers, manual_overrides_used, failed_geocoding, summary,
                   requests, skipped>>
    /\ UNCHANGED fvars

\* "if coordinates:" after geocode_address has returned: the marker is added, or
\* the failure is recorded; the locals of the call are gone
HandleResult ==
    /\ pc = "returned"
    /\ IF geocode_result.coordinates # <<>>
       THEN /\ markers' = AddMarker(markers, shop_i, coffee_shops[shop_i],
                                    geocode_result.coordinates)
            /\ successful_markers' = successful_markers + 1
            /\ UNCHANGED failed_geocoding
       ELSE /\ failed_geocoding' = RecordFailure(failed_geocoding, coffee_shops[shop_i],
                                                 geocode_result.error)
            /\ UNCHANGED <<markers, successful_markers>>
    /\ shop_i' = shop_i + 1
    /\ pc' = "loop"
    /\ address_attempts' = <<>>
    /\ attempt_i' = 0
    /\ first_matches' = 0
    /\ first_ok' = 0
    /\ caught' = {}
    /\ geocode_result' = NoResult
    /\ resolved_from' = <<>>
    /\ UNCHANGED <<rows, coffee_shops, manual_overrides_used, summary, requests, skipped,
                   since_request, since_response, request_gap>>
    /\ UNCHANGED fvars

\* KeyboardInterrupt during time.sleep or requests.get: no except clause of
\* geocode_address catches it, and add_coffee_shop_markers and create_map have none
Interrupt ==
    /\ pc \in {"sleep", "request"}
    /\ CatchingClause("KeyboardInterrupt") = "uncaught"
    /\ pc' = "interrupted"
    /\ UNCHANGED <<rows, coffee_shops, shop_i, address_attempts, attempt_i, markers,
                   successful_markers, manual_overrides_used, failed_geocoding, summary,
                   requests, first_matches, first_ok, caught, geocode_result, resolved_from, skipped, since_request,
                   since_response, request_gap>>
    /\ UNCHANGED fvars

\* the loop is over: "GEOCODING SUMMARY" and the failure analysis are printed
Summarize ==
    /\ pc = "loop"
    /\ shop_i > Len(coffee_shops)
    /\ summary' = <<[successful |-> successful_markers,
                     manual_overrides |-> manual_overrides_used,
                     failed |-> Len(failed_geocoding),
                     error_types |-> GroupFailures(failed_geocoding, Len(failed_geocoding))]>>
    /\ pc' = "done"
    /\ UNCHANGED <<rows, coffee_shops, shop_i, address_attempts, attempt_i, markers,
                   successful_markers, manual_overrides_used, failed_geocoding, requests,
                   first_matches, first_ok, caught, geocode_result, resolved_from, skipped, since_request, since_response,
                   request_gap>>
    /\ UNCHANGED fvars

\* the run without a run-level interruption
RunNext ==
    \/ Fetch
    \/ FetchFails
    \/ SkipShop
    \/ OverrideShop
    \/ StartGeocode
    \/ Sleep
    \/ Respond
    \/ HandleResult
    \/ Summarize

Next == RunNext \/ Interrupt

Spec == Init /\ [][Next]_vars

\* the run is never interrupted and never stalls
FairSpec == Init /\ [][RunNext]_vars /\ WF_vars(RunNext)

(***************************************************************************)
(* format_address and the address variations on their own                  *)
(***************************************************************************)
StreetParts ==
    {"", "500 W Main St", "2100 Buena Vista Rd", "121 Bethel Harvest Dr Nicholasville",
     "4 Dr Bell Drive", "12 Oak St"}

SuiteParts == {"", " Suite 1", ", Suite 1", " #5", "Ste B"}

CityParts == {"", " ", ", Lexington, KY 40507", " Lexington KY 40505", ", KY 40356"}

CountyPool == {"", "Fayette"}

FormatInit ==
    /\ fpc = "raw"
    /\ \E street \in StreetParts, suite \in SuiteParts, city \in CityParts :
          f_address = street \o suite \o city
    /\ f_county \in CountyPool
    /\ f_formatted = ""
    /\ f_again = ""
    /\ f_attempts = <<>>
    /\ RunIdle

\* formatted = format_address(address, county)
Format ==
    /\ fpc = "raw"
    /\ fpc' = "formatted"
    /\ f_formatted' = format_address(f_address, f_county)
    /\ UNCHANGED <<f_address, f_county, f_again, f_attempts>>
    /\ UNCHANGED rvars

\* format_address applied to its own result
FormatAgain ==
    /\ fpc = "formatted"
    /\ fpc' = "again"
    /\ f_again' = format_address(f_formatted, f_county)
    /\ UNCHANGED <<f_address, f_county, f_formatted, f_attempts>>
    /\ UNCHANGED rvars

\* geocode_address builds address_attempts for a non-empty formatted address
BuildAttempts ==
    /\ fpc = "again"
    /\ f_formatted # ""
    /\ fpc' = "attempts"
    /\ f_attempts' = AddressAttempts(f_formatted)
    /\ UNCHANGED <<f_address, f_county, f_formatted, f_again>>
    /\ UNCHANGED rvars

FormatNext == Format \/ FormatAgain \/ BuildAttempts

FormatSpec == FormatInit /\ [][FormatNext]_vars

(***************************************************************************)
(* Properties                                                              *)
(***************************************************************************)
\* the requests sent for shop j, in order
ShopRequests(j) == SelectSeq(requests, LAMBDA r : r.shop = j)

RequestsOf(j) == Len(ShopRequests(j))

\* the shops the loop has finished with
Processed == {j \in 1..Len(coffee_shops) : j < shop_i}

MarkersOf(j) == Cardinality({k \in 1..Len(markers) : markers[k].shop = j})

\* a failure entry is the one of shop j: a sheet row holds at most two shops, and
\* their names differ
IsFailureOf(failure, j) ==
    failure.row = coffee_shops[j].row_number /\ failure.name = coffee_shops[j].name

FailuresOf(j) ==
    Cardinality({k \in 1..Len(failed_geocoding) : IsFailureOf(failed_geocoding[k], j)})

ShopOfFailure(failure) == CHOOSE j \in 1..Len(coffee_shops) : IsFailureOf(failure, j)

Resolved == pc = "returned" /\ geocode_result.coordinates # <<>>

Failed == pc = "returned" /\ geocode_result.coordinates = <<>>

\* C1: a processed shop whose formatted address is a key of manual_coordinates has
\* a marker at that key's coordinates, and no request was ever sent for it
C1_OverrideShortCircuits ==
    \A j \in Processed :
        coffee_shops[j].address \in DOMAIN manual_coordinates =>
            /\ RequestsOf(j) = 0
            /\ MarkersOf(j) = 1
            /\ \E k \in 1..Len(markers) :
                  /\ markers[k].shop = j
                  /\ markers[k].location = manual_coordinates[coffee_shops[j].address]

C1_Witness ==
    /\ pc = "done"
    /\ requests # <<>>
    /\ \E j \in Processed : coffee_shops[j].address \in DOMAIN manual_coordinates

\* C2, as claimed: geocode_address returns coordinates at the first attempt whose
\* response holds a non-empty list of matches, after exactly that many requests
C2_ReturnsAtFirstMatches ==
    (pc = "returned" /\ first_matches # 0) =>
        /\ geocode_result.coordinates # <<>>
        /\ attempt_i = first_matches
        /\ RequestsOf(shop_i) = first_matches

\* C2, amended: geocode_address returns coordinates at the first attempt whose
\* response holds a non-empty list of matches whose selected match has a latitude
\* and a longitude that float() takes; it has then sent exactly that many
\* requests, the last one for that variation, and it sends none after it
C2_ReturnsAtFirstUsableMatch ==
    /\ first_ok # 0 => Resolved /\ attempt_i = first_ok
    /\ Resolved =>
          /\ first_ok = attempt_i
          /\ RequestsOf(shop_i) = first_ok
          /\ requests[Len(requests)] =
                [shop |-> shop_i, attempt |-> first_ok, q |-> address_attempts[first_ok]]

C2_Witness ==
    /\ Resolved
    /\ first_ok = 3
    /\ RequestsOf(shop_i) = 3
    /\ first_matches = 3

\* C3: when every variation got a response with no matches, geocode_address has
\* sent one request per variation, in the order of the list, and returns no
\* coordinates and the error that names the number of variations
C3_AllEmptyFails ==
    (pc = "returned" /\ first_matches = 0 /\ caught = {}) =>
        /\ geocode_result.coordinates = <<>>
        /\ RequestsOf(shop_i) = Len(address_attempts)
        /\ \A k \in 1..RequestsOf(shop_i) :
              /\ ShopRequests(shop_i)[k].attempt = k
              /\ ShopRequests(shop_i)[k].q = address_attempts[k]
        /\ Slice(geocode_result.error, 1, 37) =
              "All " \o ToString(Len(address_attempts)) \o " geocoding attempts failed for: "

C3_Witness ==
    /\ Failed
    /\ first_matches = 0
    /\ caught = {}
    /\ Len(address_attempts) = 3
    /\ RequestsOf(shop_i) = 3

\* C4: no exception of an attempt leaves geocode_address; after one, the call
\* still returns coordinates when a later variation succeeds, and otherwise
\* returns its error only after a request for every variation
C4_ErrorsDoNotAbort ==
    /\ pc # "raised"
    /\ (pc = "returned" /\ caught # {}) =>
          IF first_ok # 0
          THEN geocode_result.coordinates # <<>>
          ELSE /\ geocode_result.coordinates = <<>>
               /\ attempt_i = Len(address_attempts)
               /\ RequestsOf(shop_i) = Len(address_attempts)

C4_Witness ==
    /\ Resolved
    /\ attempt_i = 3
    /\ caught = {"except requests.RequestException", "except (ValueError, KeyError)"}

\* C5: a request is sent only after a wait of at least SleepSeconds since the
\* latest response came back, so at least SleepSeconds after the request before
\* it, whichever shop that one was for
C5_MinimumInterval ==
    pc = "request" =>
        /\ since_response >= SleepSeconds
        /\ Len(requests) >= 2 => request_gap >= SleepSeconds

C5_Witness ==
    /\ pc = "request"
    /\ Len(requests) >= 2
    /\ requests[Len(requests)].shop # requests[Len(requests) - 1].shop
    /\ request_gap = SleepSeconds

\* every shop has met exactly one of: skipped, marker added, failure recorded
EachShopProcessedOnce ==
    /\ shop_i = Len(coffee_shops) + 1
    /\ \A j \in 1..Len(coffee_shops) :
          MarkersOf(j) + FailuresOf(j) = IF coffee_shops[j].address = "" THEN 0 ELSE 1
    /\ skipped = Cardinality({j \in 1..Len(coffee_shops) : coffee_shops[j].address = ""})
    /\ Len(markers) + Len(failed_geocoding) + skipped = Len(coffee_shops)

C7_PartialSummary == pc = "interrupted" => summary # <<>>

\* C8: the requests are sent in the order of the shops, and the failures are
\* listed in the order of the shops, in failed_geocoding and in every category of
\* the summary
InShopOrder(failures) ==
    \A a, b \in 1..Len(failures) :
        a < b => ShopOfFailure(failures[a]) < ShopOfFailure(failures[b])

C8_IngestionOrder ==
    /\ \A a, b \in 1..Len(requests) : a < b => requests[a].shop <= requests[b].shop
    /\ InShopOrder(failed_geocoding)
    /\ summary # <<>> =>
          \A c \in 1..Len(summary[1].error_types) :
              InShopOrder(summary[1].error_types[c].failures)

C8_Witness ==
    /\ summary # <<>>
    /\ \E c \in 1..Len(summary[1].error_types) :
          Len(summary[1].error_types[c].failures) = 2
    /\ \E a, b \in 1..Len(requests) : requests[a].shop < requests[b].shop

\* C9: the list of variations of a non-empty formatted address is not empty,
\* starts with the formatted address itself, and holds no string twice
C9_CandidateList ==
    fpc = "attempts" =>
        /\ Len(f_attempts) >= 1
        /\ f_attempts[1] = f_formatted
        /\ \A a, b \in 1..Len(f_attempts) : f_attempts[a] = f_attempts[b] => a = b

C9_Witness ==
    /\ fpc = "attempts"
    /\ Len(f_attempts) = 4
    /\ InList(f_attempts, RemoveSuites(f_formatted, 1))
    /\ f_attempts[4] # RemoveSuites(f_formatted, 1)

\* C10: format_address applied to its own result, with the same county, returns
\* that result
C10_Idempotent == fpc \in {"again", "attempts"} => f_again = f_formatted

\* C11: format_address returns "" for an address that is empty or holds only
\* whitespace, whatever the county
C11_BlankGivesEmpty ==
    fpc # "raw" /\ Strip(f_address) = "" => f_formatted = ""

\* the display names of the model that hold 'kentucky' in any case
KentuckyNames ==
    {name \in UNION {{DisplayName(response.results[k]) : k \in 1..Len(response.results)} :
                        response \in Responses} :
        Contains(Lower(name), "kentucky")}

\* the positions of the matches whose display name holds 'kentucky' in any case
KentuckyPositions(results) ==
    {k \in 1..Len(results) : DisplayName(results[k]) \in KentuckyNames}

\* the match the claim C12 says is selected
SelectedMatch(results) ==
    IF KentuckyPositions(results) # {}
    THEN results[CHOOSE k \in KentuckyPositions(results) :
                     \A other \in KentuckyPositions(results) : k <= other]
    ELSE results[1]

\* C12: the coordinates geocode_address returns are those of the first match, in
\* response order, whose display name holds 'kentucky' in any case, and those of
\* the first match of the response when no match does
C12_SelectsKentuckyMatch ==
    resolved_from # <<>> =>
        LET selected == SelectedMatch(resolved_from)
        IN  geocode_result.coordinates =
                <<ParseFloat(selected.lat).value, ParseFloat(selected.lon).value>>

C12_Witness ==
    /\ pc = "returned"
    /\ Len(resolved_from) = 3
    /\ 1 \notin KentuckyPositions(resolved_from)
    /\ KentuckyPositions(resolved_from) = {2, 3}
    /\ geocode_result.coordinates = <<Finite(382098), Finite(-842530)>>

\* the processed shops that have a marker
Marked == {j \in Processed : MarkersOf(j) > 0}

\* C13: a processed shop whose formatted address is "" has no marker (from an
\* override or from the service), no request and no failure entry, and the
\* success counters count the other shops only
C13_EmptyAddressSkipped ==
    /\ \A j \in Processed :
          coffee_shops[j].address = "" =>
              /\ ~HasManualOverride(coffee_shops[j].address)
              /\ RequestsOf(j) = 0
              /\ MarkersOf(j) = 0
              /\ FailuresOf(j) = 0
    /\ successful_markers = Cardinality(Marked)
    /\ manual_overrides_used =
          Cardinality({j \in Processed : HasManualOverride(coffee_shops[j].address)})
    /\ skipped = Cardinality({j \in Processed : coffee_shops[j].address = ""})

C13_Witness ==
    /\ pc = "done"
    /\ summary # <<>>
    /\ Len(coffee_shops) = 2
    /\ coffee_shops[1].address = ""
    /\ skipped = 1
    /\ RequestsOf(2) > 0

\* key is the text of error before its first ':', or all of error when it has none
IsCategoryOf(key, error) ==
    \/ ~Contains(error, ":") /\ key = error
    \/ /\ ~Contains(key, ":")
       /\ Slice(error, 1, Len(key) + 1) = key \o ":"

\* how often failure is listed in the categories error_types
Listings(error_types, failure) ==
    Cardinality({place \in UNION {{<<c, m>> : m \in 1..Len(error_types[c].failures)} :
                                     c \in 1..Len(error_types)} :
                    error_types[place[1]].failures[place[2]] = failure})

RECURSIVE CategorySizes(_, _)
\* the sum of the sizes of the first n categories
CategorySizes(error_types, n) ==
    IF n = 0 THEN 0
    ELSE CategorySizes(error_types, n - 1) + Len(error_types[n].failures)

\* C14: in the printed failure analysis every failure entry is listed once, in
\* one category, whose name is the text of its error before the first ':' (the
\* whole error when it has none); categories have different names and their
\* sizes add up to the number of failures
C14_FailureCategories ==
    summary # <<>> =>
        LET error_types == summary[1].error_types
        IN  /\ \A k \in 1..Len(failed_geocoding) :
                  Listings(error_types, failed_geocoding[k]) = 1
            /\ \A c \in 1..Len(error_types) :
                  /\ error_types[c].failures # <<>>
                  /\ \A m \in 1..Len(error_types[c].failures) :
                        IsCategoryOf(error_types[c].key, error_types[c].failures[m].error)
                  /\ \A d \in 1..Len(error_types) :
                        error_types[d].key = error_types[c].key => d = c
            /\ CategorySizes(error_types, Len(error_types)) = Len(failed_geocoding)
            /\ summary[1].failed = Len(failed_geocoding)

C14_Witness ==
    /\ summary # <<>>
    /\ Len(failed_geocoding) = 2
    /\ Len(summary[1].error_types) = 2
    /\ summary[1].error_types[1].key = "All 3 geocoding attempts failed for"
    /\ summary[1].error_types[2].key = "All 2 geocoding attempts failed for"

\* the records fetch_coffee_shops made of sheet row n (the header is row 1)
RecordsOfRow(n) == {k \in 1..Len(coffee_shops) : coffee_shops[k].row_number = n}

\* C15: of a fetched sheet, every row after the header with at least 3 columns
\* has one record, or two (locations 1 and 2) when both its address columns are
\* not empty; the header and the shorter rows have none
C15_RecordsPerRow ==
    coffee_shops # <<>> =>
        /\ RecordsOfRow(1) = {}
        /\ \A n \in 2..Len(rows) :
              IF Len(rows[n]) < 3 THEN RecordsOfRow(n) = {}
              ELSE IF Col(rows[n], 1) # "" /\ Col(rows[n], 2) # ""
              THEN /\ Cardinality(RecordsOfRow(n)) = 2
                   /\ {coffee_shops[k].location_num : k \in RecordsOfRow(n)} = {1, 2}
              ELSE Cardinality(RecordsOfRow(n)) = 1

\* the county column of the sheet: after name, address-1, address-2 and three
\* columns that are not read
CountyColumn(row) == IF Len(row) > 6 THEN Col(row, 6) ELSE ""

\* C16: every record holds the county of the seventh column of its row, and its
\* address is its original address formatted with that county
C16_CountyColumn ==
    \A k \in 1..Len(coffee_shops) :
        /\ coffee_shops[k].county = CountyColumn(rows[coffee_shops[k].row_number])
        /\ coffee_shops[k].address =
              format_address(coffee_shops[k].original_address,
                             CountyColumn(rows[coffee_shops[k].row_number]))

\* C17: the coordinates geocode_address returns, and those of every marker, are
\* two finite numbers
C17_FiniteCoordinates ==
    /\ geocode_result.coordinates # <<>> =>
          \A axis \in 1..2 : geocode_result.coordinates[axis].kind = "finite"
    /\ \A k \in 1..Len(markers) :
          \A axis \in 1..2 : markers[k].location[axis].kind = "finite"

\* C18: for every pair of street_abbrev_variations, the list of variations holds
\* the address with the abbreviation expanded when the address holds the
\* abbreviation, and the address with the word abbreviated when it holds the word
C18_ExpandAndContract ==
    fpc = "attempts" =>
        \A k \in 1..Len(street_abbrev_variations) :
            LET abbrev    == street_abbrev_variations[k][1]
                full_word == street_abbrev_variations[k][2]
            IN  /\ Contains(f_formatted, abbrev) =>
                      InList(f_attempts, Replace(f_formatted, abbrev, full_word))
                /\ Contains(f_formatted, full_word) =>
                      InList(f_attempts, Replace(f_formatted, full_word, abbrev))

\* C19: the shops the loop has finished with are each counted once, as a success,
\* as a failure entry or as skipped; overrides are among the successes, and the
\* summary reports these counts
C19_CountersAccount ==
    /\ successful_markers + Len(failed_geocoding) + skipped = Cardinality(Processed)
    /\ manual_overrides_used <= successful_markers
    /\ summary # <<>> =>
          /\ summary[1].successful = successful_markers
          /\ summary[1].manual_overrides = manual_overrides_used
          /\ summary[1].successful + summary[1].failed + skipped = Len(coffee_shops)

C19_Witness ==
    /\ pc = "loop"
    /\ shop_i = 4
    /\ skipped = 1
    /\ Len(failed_geocoding) = 1
    /\ manual_overrides_used = 1
    /\ successful_markers = 1

====
